---- MODULE Spec2Model ----
(***************************************************************************)
(* A model of convert.py: the Northwind SQLite-to-CSV converter.           *)
(*                                                                         *)
(* Python str objects are sequences of one-character strings, bytes        *)
(* objects are sequences of integers in 0..255, and a value read from      *)
(* SQLite is a record [t, v] with t in {"null", "int", "text", "blob"}.    *)
(* Source values are the None, int, str and bytes values sqlite3 returns;   *)
(* bytes occur in the registered blob columns only.                        *)
(* Four specifications share the variables: FetchSpec (download and        *)
(* downloadNorthwind over several runs), ConvertSpec (one call of          *)
(* convertTable), ConvertEnvSpec (the same call with the CSV file open to  *)
(* changes from outside between its writing and its reading) and           *)
(* DriverSpec (the __main__ block).                                        *)
(***************************************************************************)
EXTENDS Integers, Sequences, FiniteSets, TLC

\* ------------------------------------------------------------------ bounds
\* Largest number of rows of a source table.
MaxRows == 2
\* Largest number of runs of the program in a row.
MaxRuns == 3
\* Largest number of chunks the remote resource is streamed in.
MaxChunks == 2

\* ------------------------------------------------------------ characters
COMMA == ","
QUOTE == "\""
CR == "\r"
LF == "\n"
\* The end-of-line marker the csv reader feeds itself after each line.
EOL == "EOL"

Min(S) == CHOOSE x \in S : \A y \in S : x <= y

RECURSIVE Flatten(_)
Flatten(ss) == IF ss = <<>> THEN <<>> ELSE Head(ss) \o Flatten(Tail(ss))

\* list.index(x): the first position of x, 0 when x is absent (ValueError).
Index(s, x) ==
  IF \E i \in 1..Len(s) : s[i] = x
  THEN Min({i \in 1..Len(s) : s[i] = x})
  ELSE 0

\* The sequence s without its element at position k.
RemoveAt(s, k) == SubSeq(s, 1, k - 1) \o SubSeq(s, k + 1, Len(s))

\* --------------------------------------------------------------- constants
NULL_CONVERT == <<>>

Categories == <<"C", "a", "t", "e", "g", "o", "r", "i", "e", "s">>
Employees == <<"E", "m", "p", "l", "o", "y", "e", "e", "s">>
Picture == <<"P", "i", "c", "t", "u", "r", "e">>
Photo == <<"P", "h", "o", "t", "o">>

BLOBS == (Categories :> Picture) @@ (Employees :> Photo)

\* ------------------------------------------------------------------ values
SqlNull == [t |-> "null", v |-> 0]
SqlInt(n) == [t |-> "int", v |-> n]
SqlText(s) == [t |-> "text", v |-> s]
SqlBlob(b) == [t |-> "blob", v |-> b]

Digits == <<"0", "1", "2", "3", "4", "5", "6", "7", "8", "9">>

RECURSIVE NatStr(_)
NatStr(n) ==
  IF n < 10 THEN <<Digits[n + 1]>>
  ELSE NatStr(n \div 10) \o <<Digits[(n % 10) + 1]>>

\* str(attr) for the int and str values a row holds.
Str(attr) ==
  CASE attr.t = "int" -> (IF attr.v < 0 THEN <<"-">> \o NatStr(-attr.v) ELSE NatStr(attr.v))
    [] attr.t = "text" -> attr.v

\* ------------------------------------------------------------------ base64
B64Alphabet ==
  <<"A", "B", "C", "D", "E", "F", "G", "H", "I", "J", "K", "L", "M",
    "N", "O", "P", "Q", "R", "S", "T", "U", "V", "W", "X", "Y", "Z",
    "a", "b", "c", "d", "e", "f", "g", "h", "i", "j", "k", "l", "m",
    "n", "o", "p", "q", "r", "s", "t", "u", "v", "w", "x", "y", "z",
    "0", "1", "2", "3", "4", "5", "6", "7", "8", "9", "+", "/">>

B64Char(n) == B64Alphabet[n + 1]

\* A b64encode that stops after the first group of three bytes.
B64EncodeFirstGroup(b) ==
  IF Len(b) = 0 THEN <<>>
  ELSE IF Len(b) = 1 THEN
    <<B64Char(b[1] \div 4), B64Char((b[1] % 4) * 16), "=", "=">>
  ELSE IF Len(b) = 2 THEN
    <<B64Char(b[1] \div 4), B64Char((b[1] % 4) * 16 + b[2] \div 16),
      B64Char((b[2] % 16) * 4), "=">>
  ELSE
    <<B64Char(b[1] \div 4), B64Char((b[1] % 4) * 16 + b[2] \div 16),
      B64Char((b[2] % 16) * 4 + b[3] \div 64), B64Char(b[3] % 64)>>

\* base64.b64encode(b).decode('utf-8') of a bytes object.
RECURSIVE B64Encode(_)
B64Encode(b) ==
  IF Len(b) = 0 THEN <<>>
  ELSE IF Len(b) = 1 THEN
    <<B64Char(b[1] \div 4), B64Char((b[1] % 4) * 16), "=", "=">>
  ELSE IF Len(b) = 2 THEN
    <<B64Char(b[1] \div 4), B64Char((b[1] % 4) * 16 + b[2] \div 16),
      B64Char((b[2] % 16) * 4), "=">>
  ELSE
    <<B64Char(b[1] \div 4), B64Char((b[1] % 4) * 16 + b[2] \div 16),
      B64Char((b[2] % 16) * 4 + b[3] \div 64), B64Char(b[3] % 64)>>
    \o B64Encode(SubSeq(b, 4, Len(b)))

\* ------------------------------------------------------------ convertTable
\* blobColumn of convertTable: the position of the registered blob column in
\* the header, counted from 1; 0 stands for None.  A registered table whose
\* columns lack the registered name makes header.index raise (IndexFails).
BlobColumn(tName, columns) ==
  IF tName \in DOMAIN BLOBS THEN Index(columns, BLOBS[tName]) ELSE 0

IndexFails(tName, columns) ==
  tName \in DOMAIN BLOBS /\ Index(columns, BLOBS[tName]) = 0

\* A header that keeps the blob column name when the blob is dropped.
HeaderOfNoDelete(columns, bc, keep) == columns

\* header after `del header[blobColumn]`.
HeaderOf(columns, bc, keep) ==
  IF bc # 0 /\ ~keep THEN RemoveAt(columns, bc) ELSE columns

\* b64encode raises TypeError on anything that is not bytes-like.
EncodeFails(rows, bc, keep) ==
  bc # 0 /\ keep /\ \E r \in 1..Len(rows) : rows[r][bc].t # "blob"

\* A first comprehension that blanks the dropped blob instead of removing it.
BlobStepBlanks(row, bc, keep) ==
  IF bc = 0 THEN row
  ELSE IF keep THEN
    [i \in 1..Len(row) |-> IF i # bc THEN row[i] ELSE SqlText(B64Encode(row[i].v))]
  ELSE [row EXCEPT ![bc] = SqlNull]

\* The first comprehension of filterRows, on one row.
BlobStep(row, bc, keep) ==
  IF bc = 0 THEN row
  ELSE IF keep THEN
    [i \in 1..Len(row) |-> IF i # bc THEN row[i] ELSE SqlText(B64Encode(row[i].v))]
  ELSE RemoveAt(row, bc)

\* The generator of filterRows, on one row.
Stringify(row) ==
  [i \in 1..Len(row) |-> IF row[i] # SqlNull THEN Str(row[i]) ELSE NULL_CONVERT]

FilterRows(rows, bc, keep) ==
  [r \in 1..Len(rows) |-> Stringify(BlobStep(rows[r], bc, keep))]

\* -------------------------------------------------------------- csv.writer
NeedsQuote(f, alone) ==
  \/ \E i \in 1..Len(f) : f[i] \in {COMMA, QUOTE, CR, LF}
  \/ (alone /\ f = <<>>)

DoubleQuotes(f) ==
  Flatten([i \in 1..Len(f) |-> IF f[i] = QUOTE THEN <<QUOTE, QUOTE>> ELSE <<f[i]>>])

CsvField(f, alone) ==
  IF NeedsQuote(f, alone) THEN <<QUOTE>> \o DoubleQuotes(f) \o <<QUOTE>> ELSE f

\* writer.writerow(row): fields joined by the delimiter, then "\r\n".
WriteRow(row) ==
  Flatten([i \in 1..Len(row) |->
            (IF i > 1 THEN <<COMMA>> ELSE <<>>) \o CsvField(row[i], Len(row) = 1)])
  \o <<CR, LF>>

CsvWrite(hdr, tbl) ==
  WriteRow(hdr) \o Flatten([r \in 1..Len(tbl) |-> WriteRow(tbl[r])])

\* -------------------------------------------------------------- csv.reader
ReaderStart == [st |-> "START_RECORD", field |-> <<>>, fields |-> <<>>, rows |-> <<>>]

SaveField(s) == [s EXCEPT !.fields = Append(s.fields, s.field), !.field = <<>>]

AddChar(s, c) == [s EXCEPT !.field = Append(s.field, c)]

EndOfField(s, c) ==
  [SaveField(s) EXCEPT !.st = IF c = EOL THEN "START_RECORD" ELSE "EAT_CRNL"]

\* One step of the reader's state machine on character c (or EOL).
ProcessChar(s, c) ==
  CASE s.st \in {"START_RECORD", "START_FIELD"} ->
         IF s.st = "START_RECORD" /\ c = EOL THEN s
         ELSE IF s.st = "START_RECORD" /\ c \in {CR, LF} THEN [s EXCEPT !.st = "EAT_CRNL"]
         ELSE IF c \in {CR, LF, EOL} THEN EndOfField(s, c)
         ELSE IF c = QUOTE THEN [s EXCEPT !.st = "IN_QUOTED_FIELD"]
         ELSE IF c = COMMA THEN [SaveField(s) EXCEPT !.st = "START_FIELD"]
         ELSE [AddChar(s, c) EXCEPT !.st = "IN_FIELD"]
    [] s.st = "IN_FIELD" ->
         IF c \in {CR, LF, EOL} THEN EndOfField(s, c)
         ELSE IF c = COMMA THEN [SaveField(s) EXCEPT !.st = "START_FIELD"]
         ELSE AddChar(s, c)
    [] s.st = "IN_QUOTED_FIELD" ->
         IF c = EOL THEN s
         ELSE IF c = QUOTE THEN [s EXCEPT !.st = "QUOTE_IN_QUOTED_FIELD"]
         ELSE AddChar(s, c)
    [] s.st = "QUOTE_IN_QUOTED_FIELD" ->
         IF c = QUOTE THEN [AddChar(s, c) EXCEPT !.st = "IN_QUOTED_FIELD"]
         ELSE IF c = COMMA THEN [SaveField(s) EXCEPT !.st = "START_FIELD"]
         ELSE IF c \in {CR, LF, EOL} THEN EndOfField(s, c)
         ELSE [AddChar(s, c) EXCEPT !.st = "IN_FIELD"]
    [] s.st = "EAT_CRNL" ->
         IF c \in {CR, LF} THEN s
         ELSE IF c = EOL THEN [s EXCEPT !.st = "START_RECORD"]
         ELSE [s EXCEPT !.st = "ERROR"]
    [] s.st = "ERROR" -> s

\* The end of a line of the file: the reader feeds itself EOL and returns
\* the record when the state machine is back at the start of a record.
EndLine(s) ==
  LET e == ProcessChar(s, EOL)
  IN IF e.st = "START_RECORD"
     THEN [e EXCEPT !.rows = Append(e.rows, e.fields), !.fields = <<>>]
     ELSE e

\* A file opened with newline="" yields lines ending at "\n", "\r" or "\r\n".
LineEndsAt(file, i) ==
  \/ file[i] = LF
  \/ (file[i] = CR /\ (i = Len(file) \/ file[i + 1] # LF))
  \/ i = Len(file)

RECURSIVE ReadFrom(_, _, _)
ReadFrom(file, i, s) ==
  IF i > Len(file) THEN
    \* End of input inside a quoted field: the pending field is saved.
    IF s.st = "IN_QUOTED_FIELD"
    THEN [s EXCEPT !.rows = Append(s.rows, Append(s.fields, s.field))]
    ELSE s
  ELSE
    LET s1 == ProcessChar(s, file[i])
    IN IF s1.st = "ERROR" THEN s1
       ELSE ReadFrom(file, i + 1, IF LineEndsAt(file, i) THEN EndLine(s1) ELSE s1)

\* list(csv.reader(f)): the records of the file.
CsvRead(file) == ReadFrom(file, 1, ReaderStart).rows

\* ------------------------------------------------------- read-back check
\* The loop of lines 125-131 from row i on: the first exception, or "ok".
RECURSIVE VerifyRows(_, _, _)
VerifyRows(tbl, rows2, i) ==
  IF i > Len(rows2) THEN "ok"
  ELSE IF i > Len(tbl) THEN "IndexError"
  ELSE IF tbl[i] # rows2[i] THEN "AssertionError"
  ELSE VerifyRows(tbl, rows2, i + 1)

\* Lines 121-131 on the records read back from the file.
Verify(hdr, tbl, parsed) ==
  IF parsed = <<>> THEN "StopIteration"
  ELSE IF hdr # Head(parsed) THEN "AssertionError"
  ELSE VerifyRows(tbl, Tail(parsed), 1)

\* ------------------------------------------------------------------- state
VARIABLES
  \* convertTable (ConvertSpec)
  convPc,       \* position in convertTable
  tableName,    \* its argument tableName
  keepBlobs,    \* its argument keepBlobs
  columns,      \* the names of cur.description
  cur,          \* the rows the cursor yields
  blobColumn,   \* position of the blob column, 0 for None
  header,       \* the header list
  table,        \* the in-memory list of export records
  csvFile,      \* content of the file at csvPath
  readBack,     \* the records the reader yields from csvFile
  err,          \* exception that left convertTable, "none" if none
  interfered,   \* the file was changed from outside before the read-back
  \* download and downloadNorthwind (FetchSpec)
  fetchPc,        \* position in downloadNorthwind / download
  dirState,       \* DOWNLOAD_DIR: "absent", "dir", "notdir" or "noaccess"
  dbFile,         \* content of NORTHWIND_PATH: the chunks written, or NoFile
  pending,        \* chunks r.iter_content has still to yield
  run,            \* number of runs started
  httpRequests,   \* HTTP requests issued by the current run
  caught,         \* exception caught by the except clause of download
  raised,         \* exception that left downloadNorthwind, "none" if none
  opened,         \* the current run opened localPath for writing
  warned,         \* the current run printed the could-not-delete warning
  existedAtStart, \* NORTHWIND_PATH existed when the current run started
  contentAtStart, \* its content then
  downloads,      \* downloads completed over all runs
  \* the __main__ block (DriverSpec)
  mainPc,       \* position in the __main__ block
  catalog,      \* table names of sqlite_schema, in enumeration order
  database,     \* table name -> its columns and rows
  nextTable,    \* position of the first loop in catalog
  nextBlob,     \* position of the second loop in the keys of BLOBS
  artifacts,    \* path -> content of the CSV files written by this run
  exports,      \* the calls of convertTable so far, with their outcome
  mainErr       \* exception that ended the run, "none" if none

convVars ==
  <<convPc, tableName, keepBlobs, columns, cur, blobColumn, header, table,
    csvFile, readBack, err, interfered>>

fetchVars ==
  <<fetchPc, dirState, dbFile, pending, run, httpRequests, caught, raised,
    opened, warned, existedAtStart, contentAtStart, downloads>>

mainVars ==
  <<mainPc, catalog, database, nextTable, nextBlob, artifacts, exports, mainErr>>

vars == <<convVars, fetchVars, mainVars>>

\* ------------------------------------------------------ source table inputs
ID == <<"I", "D">>
Name == <<"N", "a", "m", "e">>
Orders == <<"O", "r", "d", "e", "r", "s">>

\* The tables convertTable is called on: a name and its column names.
SourceTables ==
  { [name |-> Categories, columns |-> <<ID, Name, Picture>>],
    [name |-> Employees, columns |-> <<ID, Photo, Name>>],
    [name |-> Employees, columns |-> <<ID, Name>>],
    [name |-> Orders, columns |-> <<ID, Picture, Name>>] }

IdValues == {SqlInt(7), SqlInt(-120), SqlNull}

TextValues ==
  { SqlText(<<"a">>), SqlText(<<>>), SqlNull,
    SqlText(<<"x", COMMA, QUOTE, LF>>), SqlText(<<CR, "y">>) }

BlobValues ==
  { SqlBlob(<<137, 80>>), SqlBlob(<<>>), SqlBlob(<<255>>),
    SqlBlob(<<0, 16, 131, 255>>), SqlNull }

IsBlobColumn(tName, col) == tName \in DOMAIN BLOBS /\ col = BLOBS[tName]

ValuesOf(tName, col) ==
  IF IsBlobColumn(tName, col) THEN BlobValues
  ELSE IF col = ID THEN IdValues ELSE TextValues

BaseValue(tName, col) ==
  IF IsBlobColumn(tName, col) THEN SqlBlob(<<137, 80>>)
  ELSE IF col = ID THEN SqlInt(7) ELSE SqlText(<<"a">>)

\* The rows a source table may hold: a base row changed in at most one column.
RowsOf(tName, cols) ==
  { row \in [1..Len(cols) -> IdValues \cup TextValues \cup BlobValues] :
      /\ \A i \in 1..Len(cols) : row[i] \in ValuesOf(tName, cols[i])
      /\ Cardinality({i \in 1..Len(cols) : row[i] # BaseValue(tName, cols[i])}) <= 1 }

TablesOf(tName, cols) ==
  UNION { [1..n -> RowsOf(tName, cols)] : n \in 0..MaxRows }

\* No file at the path.
NoFile == <<"<absent>">>

\* ------------------------------------------------------ ConvertSpec actions
ConvInit ==
  /\ convPc = "called"
  /\ \E t \in SourceTables :
       /\ tableName = t.name
       /\ columns = t.columns
       /\ cur \in TablesOf(t.name, t.columns)
  /\ keepBlobs \in BOOLEAN
  /\ blobColumn = 0
  /\ header = <<>>
  /\ table = <<>>
  /\ csvFile = NoFile
  /\ readBack = <<>>
  /\ err = "none"
  /\ interfered = FALSE

\* Lines 80-110: the query, the header, the blob column, the filtered table.
Query ==
  /\ convPc = "called"
  /\ IF IndexFails(tableName, columns)
     THEN /\ header' = columns
          /\ err' = "ValueError"
          /\ convPc' = "raised"
          /\ UNCHANGED <<blobColumn, table>>
     ELSE /\ blobColumn' = BlobColumn(tableName, columns)
          /\ header' = HeaderOf(columns, blobColumn', keepBlobs)
          /\ IF EncodeFails(cur, blobColumn', keepBlobs)
             THEN /\ err' = "TypeError"
                  /\ convPc' = "raised"
                  /\ UNCHANGED table
             ELSE /\ table' = FilterRows(cur, blobColumn', keepBlobs)
                  /\ convPc' = "filtered"
                  /\ UNCHANGED err
  /\ UNCHANGED <<tableName, keepBlobs, columns, cur, csvFile, readBack, interfered>>
  /\ UNCHANGED <<fetchVars, mainVars>>

\* Lines 114-118: the header and the rows are written to csvPath.
WriteCsv ==
  /\ convPc = "filtered"
  /\ csvFile' = CsvWrite(header, table)
  /\ convPc' = "written"
  /\ UNCHANGED <<tableName, keepBlobs, columns, cur, blobColumn, header, table,
                 readBack, err, interfered>>
  /\ UNCHANGED <<fetchVars, mainVars>>

\* What the file may have become when it is opened again: cut short,
\* one character changed, or a line added.
Tamperings(file) ==
  {SubSeq(file, 1, k) : k \in 0..(Len(file) - 1)}
  \cup {[file EXCEPT ![k] = "z"] : k \in 1..Len(file)}
  \cup {file \o <<"z", CR, LF>>}

\* The environment: the file is changed between its writing and its reading.
Interfere ==
  /\ convPc = "written"
  /\ ~interfered
  /\ csvFile' \in Tamperings(csvFile)
  /\ interfered' = TRUE
  /\ UNCHANGED <<convPc, tableName, keepBlobs, columns, cur, blobColumn, header,
                 table, readBack, err>>
  /\ UNCHANGED <<fetchVars, mainVars>>

\* Lines 121-131: the file is read back and compared with header and table.
ReadBack ==
  /\ convPc = "written"
  /\ readBack' = CsvRead(csvFile)
  /\ LET res == Verify(header, table, readBack')
     IN /\ err' = IF res = "ok" THEN "none" ELSE res
        /\ convPc' = IF res = "ok" THEN "returned" ELSE "raised"
  /\ UNCHANGED <<tableName, keepBlobs, columns, cur, blobColumn, header, table,
                 csvFile, interfered>>
  /\ UNCHANGED <<fetchVars, mainVars>>


\* --------------------------------------------------------- FetchSpec actions
\* The remote resource, as the chunks iter_content yields.
Remote == [i \in 1..MaxChunks |-> Digits[i + 1]]

\* A downloadNorthwind that downloads whether or not the file is there.
AlwaysDownload(file) == TRUE

\* Line 76: `if not exists(NORTHWIND_PATH)`.
NeedsDownload(file) == file = NoFile

\* A cleanup that never removes the file.
AfterUnlinkKeeps(file, unlinked) == file

\* Lines 55-56: the file after `unlink(localPath)` succeeded or raised.
AfterUnlink(file, unlinked) == IF unlinked THEN NoFile ELSE file

\* Line 59: the bare `raise` re-raises the exception the clause caught.
Reraised(original) == original

FetchInit ==
  /\ fetchPc = "idle"
  /\ dirState \in {"absent", "dir", "notdir", "noaccess"}
  /\ dbFile = NoFile
  /\ pending = <<>>
  /\ run = 0
  /\ httpRequests = 0
  /\ caught = "none"
  /\ raised = "none"
  /\ opened = FALSE
  /\ warned = FALSE
  /\ existedAtStart = FALSE
  /\ contentAtStart = NoFile
  /\ downloads = 0

\* Lines 134 and 70-76: a run starts; downloadNorthwind checks the directory
\* and whether the database is already there.
StartRun ==
  /\ fetchPc \in {"idle", "exited"}
  /\ run < MaxRuns
  /\ run' = run + 1
  /\ httpRequests' = 0
  /\ caught' = "none"
  /\ opened' = FALSE
  /\ warned' = FALSE
  /\ existedAtStart' = (dbFile # NoFile)
  /\ contentAtStart' = dbFile
  /\ IF dirState = "absent"
     THEN /\ dirState' = "dir"
          /\ raised' = "none"
          /\ fetchPc' = IF NeedsDownload(dbFile) THEN "request" ELSE "connect"
     ELSE IF dirState \in {"notdir", "noaccess"}
     THEN /\ raised' = "RuntimeError"
          /\ fetchPc' = "exited"
          /\ UNCHANGED dirState
     ELSE /\ raised' = "none"
          /\ fetchPc' = IF NeedsDownload(dbFile) THEN "request" ELSE "connect"
          /\ UNCHANGED dirState
  /\ UNCHANGED <<dbFile, pending, downloads>>
  /\ UNCHANGED <<convVars, mainVars>>

\* Lines 35-37: the GET request; a status other than 200 raises.
Request ==
  /\ fetchPc = "request"
  /\ httpRequests' = httpRequests + 1
  /\ \E status \in {200, 404} :
       IF status # 200
       THEN raised' = "RuntimeError" /\ fetchPc' = "exited"
       ELSE raised' = "none" /\ fetchPc' = "open"
  /\ UNCHANGED <<dirState, dbFile, pending, run, caught, opened, warned,
                 existedAtStart, contentAtStart, downloads>>
  /\ UNCHANGED <<convVars, mainVars>>

\* Line 41: open(localPath, "wb") creates the file empty, or raises.
Open ==
  /\ fetchPc = "open"
  /\ \E ok \in BOOLEAN :
       IF ok
       THEN /\ dbFile' = <<>>
            /\ pending' = Remote
            /\ opened' = TRUE
            /\ fetchPc' = "stream"
            /\ UNCHANGED caught
       ELSE /\ caught' = "OSError"
            /\ fetchPc' = "cleanup"
            /\ UNCHANGED <<dbFile, pending, opened>>
  /\ UNCHANGED <<dirState, run, httpRequests, raised, warned, existedAtStart,
                 contentAtStart, downloads>>
  /\ UNCHANGED <<convVars, mainVars>>

\* Lines 44-49: one chunk arrives and is written.
WriteChunk ==
  /\ fetchPc = "stream"
  /\ pending # <<>>
  /\ dbFile' = Append(dbFile, Head(pending))
  /\ pending' = Tail(pending)
  /\ UNCHANGED <<fetchPc, dirState, run, httpRequests, caught, raised, opened,
                 warned, existedAtStart, contentAtStart, downloads>>
  /\ UNCHANGED <<convVars, mainVars>>

\* Line 51: any exception inside the try block, an interrupt included, at
\* any chunk boundary.
StreamFails ==
  /\ fetchPc = "stream"
  /\ caught' \in {"OSError", "KeyboardInterrupt"}
  /\ fetchPc' = "cleanup"
  /\ UNCHANGED <<dirState, dbFile, pending, run, httpRequests, raised, opened,
                 warned, existedAtStart, contentAtStart, downloads>>
  /\ UNCHANGED <<convVars, mainVars>>

\* Lines 44 and 50: the iterator is exhausted, the file is closed, download
\* and downloadNorthwind return.
StreamEnds ==
  /\ fetchPc = "stream"
  /\ pending = <<>>
  /\ downloads' = downloads + 1
  /\ fetchPc' = "connect"
  /\ UNCHANGED <<dirState, dbFile, pending, run, httpRequests, caught, raised,
                 opened, warned, existedAtStart, contentAtStart>>
  /\ UNCHANGED <<convVars, mainVars>>

\* Lines 51-59: the except clause; unlink may raise, which only prints the
\* warning; then the caught exception is raised again.
Cleanup ==
  /\ fetchPc = "cleanup"
  /\ IF dbFile # NoFile
     THEN \E unlinked \in BOOLEAN :
            /\ dbFile' = AfterUnlink(dbFile, unlinked)
            /\ warned' = ~unlinked
     ELSE UNCHANGED <<dbFile, warned>>
  /\ raised' = Reraised(caught)
  /\ fetchPc' = "exited"
  /\ UNCHANGED <<dirState, pending, run, httpRequests, caught, opened,
                 existedAtStart, contentAtStart, downloads>>
  /\ UNCHANGED <<convVars, mainVars>>

\* Line 136: connect(NORTHWIND_PATH); the export stage starts.  The run
\* ends after it.
Connect ==
  /\ fetchPc = "connect"
  /\ fetchPc' = "exited"
  /\ UNCHANGED <<dirState, dbFile, pending, run, httpRequests, caught, raised,
                 opened, warned, existedAtStart, contentAtStart, downloads>>
  /\ UNCHANGED <<convVars, mainVars>>

\* The environment: the permissions of DOWNLOAD_DIR change between runs.
Chmod ==
  /\ fetchPc \in {"idle", "exited"}
  /\ dirState \in {"dir", "noaccess"}
  /\ dirState' = IF dirState = "dir" THEN "noaccess" ELSE "dir"
  /\ UNCHANGED <<fetchPc, dbFile, pending, run, httpRequests, caught, raised,
                 opened, warned, existedAtStart, contentAtStart, downloads>>
  /\ UNCHANGED <<convVars, mainVars>>

FetchNext ==
  \/ StartRun \/ Request \/ Open \/ WriteChunk \/ StreamFails \/ StreamEnds
  \/ Cleanup \/ Connect \/ Chmod

\* -------------------------------------------------------- convertTable, whole
\* convertTable on an undisturbed file system: the exception it ends with
\* ("none" if it returns) and the content it leaves at csvPath (NoFile when
\* it fails before opening the file).
ConvertTable(tName, cols, rows, keep) ==
  IF IndexFails(tName, cols) THEN [err |-> "ValueError", file |-> NoFile]
  ELSE
    LET bc == BlobColumn(tName, cols)
        hdr == HeaderOf(cols, bc, keep)
    IN IF EncodeFails(rows, bc, keep) THEN [err |-> "TypeError", file |-> NoFile]
       ELSE
         LET tbl == FilterRows(rows, bc, keep)
             f == CsvWrite(hdr, tbl)
             res == Verify(hdr, tbl, CsvRead(f))
         IN [err |-> IF res = "ok" THEN "none" ELSE res, file |-> f]

\* --------------------------------------------------------------- __main__
UpperCase ==
  <<"A", "B", "C", "D", "E", "F", "G", "H", "I", "J", "K", "L", "M",
    "N", "O", "P", "Q", "R", "S", "T", "U", "V", "W", "X", "Y", "Z">>

LowerCase ==
  <<"a", "b", "c", "d", "e", "f", "g", "h", "i", "j", "k", "l", "m",
    "n", "o", "p", "q", "r", "s", "t", "u", "v", "w", "x", "y", "z">>

\* str.lower()
Lower(str) ==
  [i \in 1..Len(str) |->
     IF \E k \in 1..26 : UpperCase[k] = str[i]
     THEN LowerCase[CHOOSE k \in 1..26 : UpperCase[k] = str[i]]
     ELSE str[i]]

\* str.startswith(prefix)
StartsWith(str, prefix) ==
  Len(str) >= Len(prefix) /\ SubSeq(str, 1, Len(prefix)) = prefix

SqlitePrefix == <<"s", "q", "l", "i", "t", "e", "_">>

\* Line 144: f"{tableName.lower()}.csv"
CsvPath(tName) == Lower(tName) \o <<".", "c", "s", "v">>

\* Line 150: f"{tableName.lower()}_base64.csv"
Base64Path(tName) ==
  Lower(tName) \o <<"_", "b", "a", "s", "e", "6", "4", ".", "c", "s", "v">>

\* The keys of BLOBS in the order `for tableName in BLOBS` visits them.
BlobKeys == <<Categories, Employees>>

\* A loop body that catches the exception and goes on.
NeverPropagates(e) == FALSE

\* Lines 146 and 152: nothing catches an exception of convertTable, so it
\* leaves the loop and ends the run.
Propagates(e) == e # "none"

SqliteSequence == SqlitePrefix \o <<"s", "e", "q", "u", "e", "n", "c", "e">>
CategoriesBase64 == Categories \o <<"_", "b", "a", "s", "e", "6", "4">>

\* The table names a schema catalog is drawn from.
CatalogNames == {Categories, Employees, Orders, SqliteSequence, CategoriesBase64}

\* The catalogs: the names of any of these tables, once each, in any order.
Catalogs ==
  { c \in UNION { [1..n -> CatalogNames] : n \in 0..Cardinality(CatalogNames) } :
      \A i, j \in 1..Len(c) : c[i] = c[j] => i = j }

\* The contents the table Categories may have.
CategoriesContents ==
  { [columns |-> <<ID, Name, Picture>>,
     rows |-> << <<SqlInt(1), SqlText(<<"B", "e", "v">>), b>> >>] :
    b \in {SqlBlob(<<137, 80, 78>>), SqlNull} }

\* The content of every other table.
ContentOf(tName) ==
  IF tName = Employees THEN
    [columns |-> <<ID, Photo, Name>>,
     rows |-> << <<SqlInt(1), SqlBlob(<<255>>), SqlText(<<"N", COMMA, "D">>)>>,
                 <<SqlInt(2), SqlBlob(<<>>), SqlNull>> >>]
  ELSE IF tName = SqliteSequence THEN
    [columns |-> <<Name, ID>>, rows |-> << <<SqlText(Orders), SqlInt(2)>> >>]
  ELSE
    [columns |-> <<ID, Name>>,
     rows |-> << <<SqlInt(10), SqlText(<<"a">>)>>, <<SqlInt(-11), SqlNull>> >>]

\* The databases: database[n] is the table n when the catalog lists n.
Databases ==
  { [n \in CatalogNames |-> IF n = Categories THEN c ELSE ContentOf(n)] :
      c \in CategoriesContents }

MainInit ==
  /\ mainPc = "start"
  /\ catalog \in Catalogs
  /\ database \in Databases
  /\ nextTable = 1
  /\ nextBlob = 1
  /\ artifacts = << >>
  /\ exports = <<>>
  /\ mainErr = "none"

InCatalog(tName) == \E i \in 1..Len(catalog) : catalog[i] = tName

\* Lines 134-137: the Fetcher and the connection; either may raise.
Fetch ==
  /\ mainPc = "start"
  /\ \E ok \in BOOLEAN :
       IF ok
       THEN mainPc' = "tables" /\ UNCHANGED mainErr
       ELSE mainPc' = "aborted" /\ mainErr' = "RuntimeError"
  /\ UNCHANGED <<catalog, database, nextTable, nextBlob, artifacts, exports>>
  /\ UNCHANGED <<convVars, fetchVars>>

\* One call convertTable(conn, tName, path, keep) of the driver: the query
\* fails on a table the database lacks, open(csvPath, "w") may fail, and the
\* rest is ConvertTable.
Export(tName, path, keep) ==
  \E openFails \in BOOLEAN :
    LET done == IF InCatalog(tName)
                THEN ConvertTable(tName, database[tName].columns,
                                  database[tName].rows, keep)
                ELSE [err |-> "OperationalError", file |-> NoFile]
        out == IF done.file # NoFile /\ openFails
               THEN [err |-> "OSError", file |-> NoFile]
               ELSE done
    IN /\ artifacts' = IF out.file = NoFile THEN artifacts
                       ELSE (path :> out.file) @@ artifacts
       /\ exports' = Append(exports,
            [name |-> tName, keep |-> keep, path |-> path, err |-> out.err])
       /\ IF Propagates(out.err)
          THEN mainPc' = "aborted" /\ mainErr' = out.err
          ELSE UNCHANGED <<mainPc, mainErr>>

\* Lines 139-141: an internal table is skipped.
SkipInternal ==
  /\ mainPc = "tables"
  /\ nextTable <= Len(catalog)
  /\ StartsWith(catalog[nextTable], SqlitePrefix)
  /\ nextTable' = nextTable + 1
  /\ UNCHANGED <<mainPc, catalog, database, nextBlob, artifacts, exports, mainErr>>
  /\ UNCHANGED <<convVars, fetchVars>>

\* Lines 139-146: one table of the catalog is exported with blobs dropped.
ExportTable ==
  /\ mainPc = "tables"
  /\ nextTable <= Len(catalog)
  /\ ~StartsWith(catalog[nextTable], SqlitePrefix)
  /\ Export(catalog[nextTable], CsvPath(catalog[nextTable]), FALSE)
  /\ nextTable' = nextTable + 1
  /\ UNCHANGED <<catalog, database, nextBlob>>
  /\ UNCHANGED <<convVars, fetchVars>>

\* Line 139: the catalog is exhausted.
TablesDone ==
  /\ mainPc = "tables"
  /\ nextTable > Len(catalog)
  /\ mainPc' = "blobs"
  /\ UNCHANGED <<catalog, database, nextTable, nextBlob, artifacts, exports, mainErr>>
  /\ UNCHANGED <<convVars, fetchVars>>

\* Lines 149-152: one table of BLOBS is exported with blobs kept.
ExportBlob ==
  /\ mainPc = "blobs"
  /\ nextBlob <= Len(BlobKeys)
  /\ Export(BlobKeys[nextBlob], Base64Path(BlobKeys[nextBlob]), TRUE)
  /\ nextBlob' = nextBlob + 1
  /\ UNCHANGED <<catalog, database, nextTable>>
  /\ UNCHANGED <<convVars, fetchVars>>

\* Line 149: the registry is exhausted, the run ends.
BlobsDone ==
  /\ mainPc = "blobs"
  /\ nextBlob > Len(BlobKeys)
  /\ mainPc' = "done"
  /\ UNCHANGED <<catalog, database, nextTable, nextBlob, artifacts, exports, mainErr>>
  /\ UNCHANGED <<convVars, fetchVars>>

MainNext ==
  \/ Fetch \/ SkipInternal \/ ExportTable \/ TablesDone \/ ExportBlob \/ BlobsDone

\* ---------------------------------------------------------- specifications
\* The variables of a part that a specification does not run.
ConvIdle ==
  /\ convPc = "off" /\ tableName = <<>> /\ keepBlobs = FALSE /\ columns = <<>>
  /\ cur = <<>> /\ blobColumn = 0 /\ header = <<>> /\ table = <<>>
  /\ csvFile = NoFile /\ readBack = <<>> /\ err = "none" /\ interfered = FALSE

FetchIdle ==
  /\ fetchPc = "off" /\ dirState = "dir" /\ dbFile = NoFile /\ pending = <<>>
  /\ run = 0 /\ httpRequests = 0 /\ caught = "none" /\ raised = "none"
  /\ opened = FALSE /\ warned = FALSE /\ existedAtStart = FALSE
  /\ contentAtStart = NoFile /\ downloads = 0

MainIdle ==
  /\ mainPc = "off" /\ catalog = <<>> /\ database = << >> /\ nextTable = 1
  /\ nextBlob = 1 /\ artifacts = << >> /\ exports = <<>> /\ mainErr = "none"

ConvertInit == ConvInit /\ FetchIdle /\ MainIdle

FetcherInit == FetchInit /\ ConvIdle /\ MainIdle

DriverInit == MainInit /\ ConvIdle /\ FetchIdle

ConvNext == Query \/ WriteCsv \/ ReadBack

\* One call of convertTable, the file system left alone.
ConvertSpec ==
  /\ ConvertInit
  /\ [][ConvNext]_vars

ConvEnvNext == Query \/ WriteCsv \/ Interfere \/ ReadBack

\* One call of convertTable, the file open to changes from outside.
ConvertEnvSpec ==
  /\ ConvertInit
  /\ [][ConvEnvNext]_vars

\* Runs of the Fetcher, one after the other, on one cache directory.
FetchSpec ==
  /\ FetcherInit
  /\ [][FetchNext]_vars

\* One run of the __main__ block.
DriverSpec ==
  /\ DriverInit
  /\ [][MainNext]_vars

\* ------------------------------------------------------------------ claims
\* The field a source value is exported as.
Shown(v) == IF v = SqlNull THEN NULL_CONVERT ELSE Str(v)

\* convertTable has built header and table without raising.
Filtered == convPc \in {"filtered", "written", "returned"}

\* C1: when the database file exists as downloadNorthwind starts, the run
\* issues no HTTP request and leaves the file's content as it was; over all
\* runs at most one download completes.
FetchIdempotent ==
  /\ existedAtStart => (httpRequests = 0 /\ dbFile = contentAtStart)
  /\ downloads <= 1

\* A later run that found the file of an earlier download and went on to
\* open the database.
FetchIdempotentWitness ==
  /\ fetchPc = "exited" /\ raised = "none"
  /\ existedAtStart /\ run >= 2 /\ downloads = 1 /\ dbFile = Remote

\* C2 as stated: after an error in download that followed the opening of the
\* destination file, no file is at the destination path and the error that
\* leaves download is the one that occurred.
FailureLeavesNoFile ==
  (fetchPc = "exited" /\ opened /\ raised # "none")
    => (dbFile = NoFile /\ raised = caught)

\* C2 amended: after such an error the error that leaves download is the one
\* that occurred, and no file is at the destination path unless the deletion
\* itself failed; then the warning was printed and the file holds the chunks
\* written before the error.
FailureCleanupBestEffort ==
  (fetchPc = "exited" /\ opened /\ raised # "none")
    => /\ raised = caught
       /\ ~warned => dbFile = NoFile
       /\ warned => (dbFile # NoFile /\ dbFile = SubSeq(Remote, 1, Len(dbFile)))

\* An interrupt after at least one chunk was written, the partial file gone.
FailureCleanupWitness ==
  /\ fetchPc = "exited" /\ opened /\ raised = "KeyboardInterrupt"
  /\ Len(pending) < Len(Remote) /\ dbFile = NoFile /\ ~warned

\* C10: when the database is opened, the file at the destination path holds
\* all chunks of the remote resource in arrival order.
CacheIntegrity == fetchPc = "connect" => dbFile = Remote

\* C3: convertTable returns without error only if the records read back are
\* the computed header followed by the in-memory rows, all of them, in order.
ReadBackVerifies ==
  convPc = "returned" => readBack = <<header>> \o table

\* C4: with keepBlobs false, a registered table's header is its column list
\* without the registered blob column name, and each exported row is the raw
\* row without the field at that index, the others in their order; for a
\* table not registered no column is removed.
BlobOmission ==
  (Filtered /\ ~keepBlobs) =>
    /\ Len(table) = Len(cur)
    /\ IF tableName \in DOMAIN BLOBS
       THEN \E k \in 1..Len(columns) :
              /\ columns[k] = BLOBS[tableName]
              /\ Len(header) = Len(columns) - 1
              /\ \A i \in 1..Len(header) :
                   /\ header[i] = columns[IF i < k THEN i ELSE i + 1]
                   /\ header[i] # BLOBS[tableName]
              /\ \A r \in 1..Len(cur) :
                   /\ Len(table[r]) = Len(cur[r]) - 1
                   /\ \A i \in 1..Len(table[r]) :
                        table[r][i] = Shown(cur[r][IF i < k THEN i ELSE i + 1])
       ELSE /\ header = columns
            /\ \A r \in 1..Len(cur) :
                 /\ Len(table[r]) = Len(cur[r])
                 /\ \A i \in 1..Len(table[r]) : table[r][i] = Shown(cur[r][i])

\* A registered table with its blob column in the middle, exported without
\* blobs, rows included.
BlobOmissionWitness ==
  /\ convPc = "returned" /\ ~keepBlobs /\ tableName = Employees
  /\ blobColumn = 2 /\ Len(cur) >= 1 /\ Len(header) = 2

\* The position of a character in the base64 alphabet.
B64Index(c) == CHOOSE n \in 0..63 : B64Alphabet[n + 1] = c

\* Standard base64 decoding of a padded text.
RECURSIVE B64Decode(_)
B64Decode(s) ==
  IF Len(s) < 4 THEN <<>>
  ELSE IF s[3] = "=" THEN
    <<B64Index(s[1]) * 4 + B64Index(s[2]) \div 16>>
  ELSE IF s[4] = "=" THEN
    <<B64Index(s[1]) * 4 + B64Index(s[2]) \div 16,
      (B64Index(s[2]) % 16) * 16 + B64Index(s[3]) \div 4>>
  ELSE
    <<B64Index(s[1]) * 4 + B64Index(s[2]) \div 16,
      (B64Index(s[2]) % 16) * 16 + B64Index(s[3]) \div 4,
      (B64Index(s[3]) % 4) * 64 + B64Index(s[4])>>
    \o B64Decode(SubSeq(s, 5, Len(s)))

\* C5: with keepBlobs true, a registered table's header is its full column
\* list, the field at the blob column's index base64-decodes to the source
\* bytes, and every other field is at the position of its source column.
BlobRetention ==
  (Filtered /\ keepBlobs /\ tableName \in DOMAIN BLOBS) =>
    \E k \in 1..Len(columns) :
      /\ columns[k] = BLOBS[tableName]
      /\ header = columns
      /\ Len(table) = Len(cur)
      /\ \A r \in 1..Len(cur) :
           /\ Len(table[r]) = Len(cur[r])
           /\ B64Decode(table[r][k]) = cur[r][k].v
           /\ \A i \in 1..Len(cur[r]) : i # k => table[r][i] = Shown(cur[r][i])

\* A base64 export that returned, of a blob longer than one group.
BlobRetentionWitness ==
  /\ convPc = "returned" /\ keepBlobs /\ tableName = Employees
  /\ \E r \in 1..Len(cur) : cur[r][2] = SqlBlob(<<0, 16, 131, 255>>)

\* The position in the export record of the source column i.
ExportPosition(i) ==
  IF ~keepBlobs /\ blobColumn # 0 /\ i > blobColumn THEN i - 1 ELSE i

\* The source column i is retained in the export.
Retained(i) == ~(IsBlobColumn(tableName, columns[i]) /\ ~keepBlobs)

\* C6: in every export, a NULL in a retained column (the kept blob column
\* included) yields NULL_CONVERT at its position and the export completes,
\* and every other value that is no blob yields its string representation.
NullSubstitution ==
  (convPc # "called" /\ ~IndexFails(tableName, columns)) =>
    \A r \in 1..Len(cur) : \A i \in 1..Len(cur[r]) :
      Retained(i) =>
        /\ cur[r][i] = SqlNull =>
             /\ err = "none"
             /\ table[r][ExportPosition(i)] = NULL_CONVERT
        /\ (cur[r][i].t \in {"int", "text"} /\ err = "none") =>
             table[r][ExportPosition(i)] = Str(cur[r][i])

\* C7: the written header has as many names as every written data row has
\* fields.
HeaderRowCardinality ==
  csvFile # NoFile =>
    /\ \A r \in 1..Len(table) : Len(table[r]) = Len(header)
    /\ LET written == CsvRead(csvFile)
       IN /\ Len(written) = Len(cur) + 1
          /\ \A j \in 1..Len(written) : Len(written[j]) = Len(written[1])

\* A written export of a registered table with its blob dropped, with rows.
HeaderRowCardinalityWitness ==
  /\ csvFile # NoFile /\ tableName \in DOMAIN BLOBS /\ ~keepBlobs
  /\ Len(cur) = 2 /\ Len(CsvRead(csvFile)) = 3

\* The tables of the catalog that are not internal.
UserTables ==
  {catalog[i] : i \in {j \in 1..Len(catalog) : ~StartsWith(catalog[j], SqlitePrefix)}}

\* The file an export of the table leaves.
ExportOf(tName, keep) ==
  ConvertTable(tName, database[tName].columns, database[tName].rows, keep).file

\* C8: after a run without error every table of the catalog that is not
\* internal has its blob-dropped export at <lower-cased name>.csv, and every
\* table of BLOBS has its blob-retained export at <lower-cased name>_base64.csv,
\* a path no other artifact of the run has.
DriverCoverage ==
  mainPc = "done" =>
    /\ \A n \in UserTables :
         /\ CsvPath(n) \in DOMAIN artifacts
         /\ artifacts[CsvPath(n)] = ExportOf(n, FALSE)
    /\ \A k \in 1..Len(BlobKeys) :
         /\ Base64Path(BlobKeys[k]) \in DOMAIN artifacts
         /\ artifacts[Base64Path(BlobKeys[k])] = ExportOf(BlobKeys[k], TRUE)
         /\ \A n \in UserTables : CsvPath(n) # Base64Path(BlobKeys[k])
         /\ \A j \in 1..Len(BlobKeys) :
              j # k => Base64Path(BlobKeys[j]) # Base64Path(BlobKeys[k])

\* The exports that ended with an exception.
FailedExports == {i \in 1..Len(exports) : exports[i].err # "none"}

\* C9: a failed export is the last one started and its exception ends the
\* run; a failure of the Fetcher ends the run before any export; artifacts
\* come from exports that succeeded; a run that ends without error has made
\* every requested export.
NoPartialSuccess ==
  /\ \A i \in FailedExports :
       i = Len(exports) /\ mainPc = "aborted" /\ mainErr = exports[i].err
  /\ (mainPc = "aborted") = (mainErr # "none")
  /\ (mainPc = "aborted" /\ FailedExports = {}) =>
       (exports = <<>> /\ DOMAIN artifacts = {})
  /\ DOMAIN artifacts \subseteq
       {exports[i].path : i \in (1..Len(exports)) \ FailedExports}
  /\ mainPc = "done" =>
       /\ FailedExports = {}
       /\ Len(exports) = Cardinality(UserTables) + Len(BlobKeys)
       /\ \A n \in UserTables :
            \E i \in 1..Len(exports) : exports[i].name = n /\ ~exports[i].keep
       /\ \A k \in 1..Len(BlobKeys) :
            \E i \in 1..Len(exports) : exports[i].name = BlobKeys[k] /\ exports[i].keep

\* The base64 export of the first registered table failed after the tables
\* of the catalog were exported; the second registered table was not started.
NoPartialSuccessWitness ==
  /\ mainPc = "aborted" /\ mainErr = "TypeError"
  /\ Len(exports) >= 3 /\ exports[Len(exports)].keep
  /\ nextBlob = 2 /\ DOMAIN artifacts # {}

====
